---- MODULE Spec2Model ----
(***************************************************************************)
(* Model of the cunumeric test driver: the OpenMP stage's shard planner    *)
(* (tests/_utils/stages/_linux/omp.py) and the multi-stage TestPlan        *)
(* (tests/_utils/test_plan.py).                                            *)
(***************************************************************************)
EXTENDS Integers, Sequences, FiniteSets, TLC

(* ------------------------------- bounds -------------------------------- *)
\* core ids 0..MaxId-1 used by the freely shaped inventories
MaxId == 3
\* inventories of n single-core groups, n in 0..MaxSingle
MaxSingle == 8
\* inventories of n two-thread groups, n in 0..MaxPaired
MaxPaired == 4
\* config.requested_workers in 0..MaxReq
MaxReq == 5
\* config.omps in 0..MaxOmps
MaxOmps == 2
\* config.ompthreads in 0..MaxThreads
MaxThreads == 2
\* config.utility in 0..MaxUtility
MaxUtility == 1
\* the plan runs on 0..MaxPlanCpus single-core groups
MaxPlanCpus == 2
\* the plan runs with 0..MaxGpus gpus
MaxGpus == 1
\* the plan runs with config.requested_workers in 0..MaxPlanReq
MaxPlanReq == 1
\* at most MaxEnvCalls calls of a stage's env are followed
MaxEnvCalls == 2

(* ------------------------------ helpers -------------------------------- *)
Min(a, b) == IF a < b THEN a ELSE b

\* int(bool)
int(b) == IF b THEN 1 ELSE 0

RECURSIVE chain(_)
\* itertools.chain.from_iterable over a sequence of tuples
chain(tuples) ==
  IF tuples = <<>> THEN <<>> ELSE Head(tuples) \o chain(Tail(tuples))

RECURSIVE insert_sorted(_, _)
insert_sorted(x, s) ==
  IF s = <<>> THEN <<x>>
  ELSE IF x <= Head(s) THEN <<x>> \o s
  ELSE <<Head(s)>> \o insert_sorted(x, Tail(s))

RECURSIVE sorted(_)
\* the builtin sorted() on a sequence of ints
sorted(s) ==
  IF s = <<>> THEN <<>> ELSE insert_sorted(Head(s), sorted(Tail(s)))

(* --------------------------- value domains ----------------------------- *)
PinModes == {"none", "partial", "strict"}

Features == {"cpus", "cuda", "openmp"}

\* the exit codes a worker process may report (killed, success, failure)
ReturnCodes == {-9, 0, 1}

CPUInfo(ids) == [ids |-> ids]

RECURSIVE PermsOf(_)
PermsOf(S) ==
  IF S = {} THEN {<<>>}
  ELSE UNION {{<<x>> \o p : p \in PermsOf(S \ {x})} : x \in S}

RECURSIVE Groupings(_)
\* every way to cut a sequence of ids into consecutive non-empty groups
Groupings(ids) ==
  IF ids = <<>> THEN {<<>>}
  ELSE UNION {{<<CPUInfo(SubSeq(ids, 1, k))>> \o r :
                 r \in Groupings(SubSeq(ids, k + 1, Len(ids)))} :
              k \in 1..Len(ids)}

\* n single-core groups with ids 0..n-1, in id order
SingleCore(n) == [j \in 1..n |-> CPUInfo(<<j - 1>>)]

\* n groups of two sibling hardware threads, core j holding ids j and j+n
PairedCore(n) == [j \in 1..n |-> CPUInfo(<<j - 1, j - 1 + n>>)]

\* disjoint groups of any size over ids 0..MaxId-1, in any order
ShapedCpus ==
  UNION {UNION {Groupings(p) : p \in PermsOf(S)} : S \in SUBSET (0..(MaxId - 1))}

PlannerCpus ==
  ShapedCpus \cup {SingleCore(n) : n \in 0..MaxSingle}
    \cup {PairedCore(n) : n \in 0..MaxPaired}

PlanCpus ==
  {SingleCore(n) : n \in 0..MaxPlanCpus}
    \cup {<<CPUInfo(<<1, 0>>)>>}

RECURSIVE FeatureLists(_)
\* ordered lists of feature kinds, each kind at most once
FeatureLists(S) ==
  {<<>>} \cup UNION {{<<f>> \o r : r \in FeatureLists(S \ {f})} : f \in S}

(* ------------------------- the shard planner --------------------------- *)
StageSpec(workers, shards) ==
  [kind |-> "StageSpec", workers |-> workers, shards |-> shards]

\* an exception leaving compute_spec
Raised(exc) == [kind |-> exc, workers |-> 0, shards |-> <<>>]

\* util.adjust_workers: the clamping policy; a negative value stands for
\* the configuration error
adjust_workers(workers, requested_workers) ==
  IF requested_workers = 0 THEN workers
  ELSE IF workers = 0 THEN -1
  ELSE Min(workers, requested_workers)

\* procs without the core reserved under strict pinning
procs_unpinned(config) == config.omps * config.ompthreads + config.utility

\* omps * threads + config.utility + int(config.cpu_pin == "strict")
procs(config) ==
  config.omps * config.ompthreads + config.utility
    + int(config.cpu_pin = "strict")

\* the capacity counted in core ids instead of CPU groups
adjust_args_ids(cpus, nprocs, config) ==
  <<Len(chain([g \in 1..Len(cpus) |-> cpus[g].ids])) \div nprocs,
    config.requested_workers>>

\* the two arguments of adjust_workers in the wrong order
adjust_args_swapped(cpus, nprocs, config) ==
  <<config.requested_workers, Len(cpus) \div nprocs>>

\* the argument list of the adjust_workers call; needs nprocs > 0
adjust_args(cpus, nprocs, config) ==
  <<Len(cpus) \div nprocs, config.requested_workers>>

\* range(i, i + procs): the stride of one worker is lost
shard_cpus_stride(i, nprocs) == [n \in 1..nprocs |-> i + n - 1]

\* range(i * procs, (i + 1) * procs) as the sequence it iterates, i from 0
shard_cpus(i, nprocs) == [n \in 1..nprocs |-> i * nprocs + n - 1]

\* the shard without the call of sorted
shard_unsorted(cpus, i, nprocs) ==
  LET ks == shard_cpus(i, nprocs)
  IN chain([n \in 1..Len(ks) |-> cpus[ks[n] + 1].ids])

\* tuple(sorted(chain.from_iterable(cpus[j].ids for j in shard_cpus)));
\* cpus is indexed from 0 in the code, from 1 here
shard(cpus, i, nprocs) ==
  LET js == shard_cpus(i, nprocs)
  IN sorted(chain([n \in 1..Len(js) |-> cpus[js[n] + 1].ids]))

\* OMP.compute_spec
compute_spec(config, system) ==
  LET cpus == system.cpus
      nprocs == procs(config)
  IN IF nprocs = 0 THEN Raised("ZeroDivisionError")
     ELSE LET args == adjust_args(cpus, nprocs, config)
              workers == adjust_workers(args[1], args[2])
          IN IF workers < 0 THEN Raised("ConfigurationError")
             ELSE IF \E i \in 0..(workers - 1) :
                       \E n \in 1..Len(shard_cpus(i, nprocs)) :
                          shard_cpus(i, nprocs)[n] >= Len(cpus)
                  THEN Raised("IndexError")
                  ELSE StageSpec(workers,
                         [w \in 1..workers |-> shard(cpus, w - 1, nprocs)])
(* ---------------- the worker's environment and arguments --------------- *)
VARIABLE
  UNPIN_ENV   \* the module-level mapping util.UNPIN_ENV, a set of pairs

\* the contents util.UNPIN_ENV is created with: the override that turns
\* thread pinning off
UnpinOverrides == {<<"UNPIN", "1">>}

\* env handing out UNPIN_ENV itself instead of a copy
env_shared(cfg, sys) ==
  IF cfg.cpu_pin = "strict" THEN [shared |-> FALSE, map |-> {}]
  ELSE [shared |-> TRUE, map |-> UNPIN_ENV]

\* OMP.env: {} if config.cpu_pin == "strict" else dict(UNPIN_ENV); the
\* result is a mapping object, shared tells whether it is UNPIN_ENV itself
env(cfg, sys) ==
  IF cfg.cpu_pin = "strict" THEN [shared |-> FALSE, map |-> {}]
  ELSE [shared |-> FALSE, map |-> UNPIN_ENV]

DecimalDigits == <<"0", "1", "2", "3", "4", "5", "6", "7", "8", "9">>

RECURSIVE str(_)
\* str() of a non-negative int: its decimal digits
str(n) ==
  IF n < 10 THEN DecimalDigits[n + 1]
  ELSE str(n \div 10) \o DecimalDigits[(n % 10) + 1]

RECURSIVE join(_, _)
\* sep.join(strings)
join(sep, strings) ==
  IF strings = <<>> THEN ""
  ELSE IF Len(strings) = 1 THEN strings[1]
  ELSE strings[1] \o sep \o join(sep, Tail(strings))

\* shard_args binding the cores under strict pinning only
shard_args_strict(shard_ids, cfg) ==
  <<"--omps", str(cfg.omps), "--ompthreads", str(cfg.ompthreads)>>
    \o (IF cfg.cpu_pin = "strict"
        THEN <<"--cpu-bind",
               join(",", [n \in 1..Len(shard_ids) |-> str(shard_ids[n])])>>
        ELSE <<>>)

\* OMP.shard_args
shard_args(shard_ids, cfg) ==
  <<"--omps", str(cfg.omps), "--ompthreads", str(cfg.ompthreads)>>
    \o (IF cfg.cpu_pin # "none"
        THEN <<"--cpu-bind",
               join(",", [n \in 1..Len(shard_ids) |-> str(shard_ids[n])])>>
        ELSE <<>>)

(* ----------------- the other stages of the STAGES table ---------------- *)
\* the ShardPlanner for a plain-CPU stage: 1 + utility cores per worker,
\* consecutive runs of the flattened id sequence
cpu_compute_spec(config, system) ==
  LET flat == chain([g \in 1..Len(system.cpus) |-> system.cpus[g].ids])
      per == 1 + config.utility
      cpu_workers == adjust_workers(Len(flat) \div per, config.requested_workers)
  IN IF cpu_workers < 0 THEN Raised("ConfigurationError")
     ELSE StageSpec(cpu_workers,
            [w \in 1..cpu_workers |-> SubSeq(flat, (w - 1) * per + 1, w * per)])

\* the ShardPlanner for a GPU stage: capacity is the gpu count, no cores
gpu_compute_spec(config, system) ==
  LET gpu_workers == adjust_workers(system.gpus, config.requested_workers)
  IN IF gpu_workers < 0 THEN Raised("ConfigurationError")
     ELSE StageSpec(gpu_workers, [w \in 1..gpu_workers |-> <<>>])

\* STAGES[feature](config, system): TestStage._init names the stage and
\* computes its StageSpec once
STAGES(feature, config, system) ==
  [name |-> feature,
   spec |-> CASE feature = "openmp" -> compute_spec(config, system)
              [] feature = "cpus" -> cpu_compute_spec(config, system)
              [] feature = "cuda" -> gpu_compute_spec(config, system),
   finished |-> <<>>,
   procs |-> <<>>]

(* ------------------------------ the state ------------------------------ *)
VARIABLES
  system,     \* System: cpus (sequence of CPUInfo) and gpus (count)
  config,     \* Config
  pc,         \* "init", "raised", "execute", "aggregated", "done"
  stages,     \* TestPlan._stages, the stages constructed so far
  started,    \* number of stages whose call has begun
  joined,     \* number of stages whose call has returned
  live,       \* running worker processes, as <<stage index, worker>>
  error,      \* the exception that left TestPlan.__init__, or "none"
  total,      \* execute's local total, -1 before it is assigned
  passed,     \* execute's local passed, -1 before it is assigned
  report,     \* what _log_failures has logged
  exit_code,  \* the value execute returned, -1 before it returns
  argv,       \* the last result of shard_args and the worker it was for
  envs        \* the mappings the calls of env have returned, in call order

vars ==
  <<system, config, pc, stages, started, joined, live, error, total, passed,
    report, exit_code, argv, envs, UNPIN_ENV>>

\* the state of the workers' command lines and environments
cmdvars == <<argv, envs, UNPIN_ENV>>

NoArgs == [worker |-> 0, args |-> <<>>]

NoReport == [banner |-> FALSE, entries |-> <<>>]

Configs(reqs, ompss, threadss, utils, featuress) ==
  [features : featuress, requested_workers : reqs, cpu_pin : PinModes,
   omps : ompss, ompthreads : threadss, utility : utils]

InitLocals ==
  /\ pc = "init"
  /\ stages = <<>>
  /\ started = 0
  /\ joined = 0
  /\ live = {}
  /\ error = "none"
  /\ total = -1
  /\ passed = -1
  /\ report = NoReport
  /\ exit_code = -1
  /\ argv = NoArgs
  /\ envs = <<>>
  /\ UNPIN_ENV = UnpinOverrides

(* ------------------------------ TestPlan ------------------------------- *)
\* __init__ returning once the first stage is built
InitReturned_lazy(built, features) == built >= Min(1, Len(features))

\* the list comprehension of __init__ has run to its end
InitReturned(built, features) == built = Len(features)

\* the loop going on while a stage call is still running
ForLoopReady_async(nstarted, njoined) == nstarted >= njoined

\* the for loop of execute is at the top of an iteration: every stage call
\* made so far has returned
ForLoopReady(nstarted, njoined) == nstarted = njoined

\* the for loop leaving after the first stage call
LoopExhausted_first(nstarted, njoined, stgs, features) ==
  njoined = nstarted /\ nstarted >= Min(1, Len(features))

\* the for loop leaving once a returned stage holds a failed completion
LoopExhausted_failfast(nstarted, njoined, stgs, features) ==
  /\ njoined = nstarted
  /\ \/ nstarted = Len(features)
     \/ \E s \in 1..njoined : \E w \in 1..Len(stgs[s].procs) :
          stgs[s].procs[w] # 0

\* the for loop of execute has gone through every stage of self._stages
LoopExhausted(nstarted, njoined, stgs, features) ==
  nstarted = Len(features) /\ njoined = nstarted

\* the completions of a stage in the order the workers ended
collect_procs_ended(finished, workers) ==
  [w \in 1..workers |-> finished[w].returncode]

\* the completions of a stage in worker (launch) order
collect_procs(finished, workers) ==
  [w \in 1..workers |->
     (CHOOSE e \in {finished[n] : n \in 1..Len(finished)} : e.worker = w).returncode]

\* tuple(chain.from_iterable(s.result.procs for s in self._stages))
all_procs(stgs) == chain([s \in 1..Len(stgs) |-> stgs[s].procs])

RECURSIVE count_passed(_)
\* sum(proc.returncode == 0 for proc in all_procs)
count_passed(ps) ==
  IF ps = <<>> THEN 0 ELSE int(Head(ps) = 0) + count_passed(Tail(ps))

\* the number of failures as the exit status
exit_status_count(tot, pas) == tot - pas

\* an empty run counted as a failure
exit_status_empty(tot, pas) == int((tot - pas) > 0 \/ tot = 0)

\* int((total - passed) > 0)
exit_status(tot, pas) == int((tot - pas) > 0)

RECURSIVE failing_positive(_, _, _)
\* only positive return codes taken as failures
failing_positive(name, ps, w) ==
  IF w > Len(ps) THEN <<>>
  ELSE (IF ps[w] > 0
        THEN <<[stage |-> name, worker |-> w, returncode |-> ps[w]]>>
        ELSE <<>>) \o failing_positive(name, ps, w + 1)

RECURSIVE failing(_, _, _)
\* (proc for proc in stage.result.procs if proc.returncode), each logged
\* under its stage's name
failing(name, ps, w) ==
  IF w > Len(ps) THEN <<>>
  ELSE (IF ps[w] # 0
        THEN <<[stage |-> name, worker |-> w, returncode |-> ps[w]]>>
        ELSE <<>>) \o failing(name, ps, w + 1)

\* TestPlan._log_failures
log_failures(tot, pas, stgs) ==
  IF tot = pas THEN NoReport
  ELSE [banner |-> TRUE,
        entries |-> chain([s \in 1..Len(stgs) |->
                             failing(stgs[s].name, stgs[s].procs, 1)])]

\* __init__: one iteration of the comprehension building self._stages; an
\* exception of the stage's constructor leaves __init__
ConstructStage ==
  /\ pc # "raised"
  /\ Len(stages) < Len(config.features)
  /\ LET stage == STAGES(config.features[Len(stages) + 1], config, system)
     IN IF stage.spec.kind = "StageSpec"
        THEN /\ stages' = Append(stages, stage)
             /\ UNCHANGED <<pc, error>>
        ELSE /\ pc' = "raised"
             /\ error' = stage.spec.kind
             /\ UNCHANGED stages
  /\ UNCHANGED cmdvars
  /\ UNCHANGED <<system, config, started, joined, live, total, passed,
                 report, exit_code>>

\* execute is entered on the constructed plan
BeginExecute ==
  /\ pc = "init"
  /\ InitReturned(Len(stages), config.features)
  /\ pc' = "execute"
  /\ UNCHANGED cmdvars
  /\ UNCHANGED <<system, config, stages, started, joined, live, error, total,
                 passed, report, exit_code>>

\* stage(self._config, self._system): the stage launches one process per
\* worker of its StageSpec
StartStage ==
  /\ pc = "execute"
  /\ ForLoopReady(started, joined)
  /\ started < Len(stages)
  /\ started' = started + 1
  /\ live' = live \cup
       {<<started + 1, w>> : w \in 1..stages[started + 1].spec.workers}
  /\ UNCHANGED cmdvars
  /\ UNCHANGED <<system, config, pc, stages, joined, error, total, passed,
                 report, exit_code>>

\* a worker process ends with a return code
WorkerExit ==
  /\ \E p \in live : \E rc \in ReturnCodes :
       /\ live' = live \ {p}
       /\ stages' = [stages EXCEPT ![p[1]].finished =
                       Append(@, [worker |-> p[2], returncode |-> rc])]
  /\ UNCHANGED cmdvars
  /\ UNCHANGED <<system, config, pc, started, joined, error, total, passed,
                 report, exit_code>>

\* the stage call returns once every worker has ended; its result holds the
\* completions in worker order and its pool is gone
JoinStage ==
  /\ pc = "execute"
  /\ joined < started
  /\ \A p \in live : p[1] # joined + 1
  /\ stages' = [stages EXCEPT
                  ![joined + 1].procs =
                     collect_procs(stages[joined + 1].finished,
                                   stages[joined + 1].spec.workers),
                  ![joined + 1].finished = <<>>]
  /\ joined' = joined + 1
  /\ UNCHANGED cmdvars
  /\ UNCHANGED <<system, config, pc, started, live, error, total, passed,
                 report, exit_code>>

\* the loop is over: all_procs, total and passed are computed
Aggregate ==
  /\ pc = "execute"
  /\ LoopExhausted(started, joined, stages, config.features)
  /\ total' = Len(all_procs(stages))
  /\ passed' = count_passed(all_procs(stages))
  /\ pc' = "aggregated"
  /\ UNCHANGED cmdvars
  /\ UNCHANGED <<system, config, stages, started, joined, live, error,
                 report, exit_code>>

\* _log_failures and the return of execute
Finish ==
  /\ pc = "aggregated"
  /\ report' = log_failures(total, passed, stages)
  /\ exit_code' = exit_status(total, passed)
  /\ pc' = "done"
  /\ UNCHANGED cmdvars
  /\ UNCHANGED <<system, config, stages, started, joined, live, error, total,
                 passed>>

\* a caller asks the OpenMP stage for the arguments of one of its workers
CallShardArgs ==
  /\ pc = "init"
  /\ \E s \in 1..Len(stages) : \E w \in 1..stages[s].spec.workers :
       /\ stages[s].name = "openmp"
       /\ argv' = [worker |-> w,
                   args |-> shard_args(stages[s].spec.shards[w], config)]
  /\ UNCHANGED <<system, config, pc, stages, started, joined, live, error,
                 total, passed, report, exit_code, envs, UNPIN_ENV>>

\* a caller asks the OpenMP stage for the environment of its workers; later
\* records that the caller had already written to an earlier result
CallEnv ==
  /\ pc = "init"
  /\ \E s \in 1..Len(stages) : stages[s].name = "openmp"
  /\ Len(envs) < MaxEnvCalls
  /\ envs' = Append(envs, [shared |-> env(config, system).shared,
                           map |-> env(config, system).map,
                           touched |-> FALSE,
                           later |-> \E m \in 1..Len(envs) : envs[m].touched])
  /\ UNCHANGED <<system, config, pc, stages, started, joined, live, error,
                 total, passed, report, exit_code, argv, UNPIN_ENV>>

\* the caller adds an entry of its own to a mapping env returned; a write
\* to a mapping that is UNPIN_ENV itself is a write to UNPIN_ENV
MutateEnv ==
  /\ \E n \in 1..Len(envs) :
       /\ ~envs[n].touched
       /\ IF envs[n].shared
          THEN /\ UNPIN_ENV' = UNPIN_ENV \cup {<<"CALLER", "x">>}
               /\ envs' = [envs EXCEPT ![n].touched = TRUE]
          ELSE /\ envs' = [envs EXCEPT ![n].touched = TRUE,
                                        ![n].map = @ \cup {<<"CALLER", "x">>}]
               /\ UNCHANGED UNPIN_ENV
  /\ UNCHANGED <<system, config, pc, stages, started, joined, live, error,
                 total, passed, report, exit_code, argv>>

(* --------------------------- specifications ---------------------------- *)
\* a whole run of the plan; the plan itself never reads cpu_pin, and the
\* stages read it only to tell strict from the rest, so partial is left to
\* the specifications of the OpenMP stage
Init ==
  /\ system \in [cpus : PlanCpus, gpus : 0..MaxGpus]
  /\ config \in {c \in Configs(0..MaxPlanReq, 0..1, 1..1, 0..1,
                               FeatureLists(Features)) :
                   c.cpu_pin # "partial"}
  /\ InitLocals

Next ==
  \/ ConstructStage
  \/ BeginExecute
  \/ StartStage
  \/ WorkerExit
  \/ JoinStage
  \/ Aggregate
  \/ Finish

Spec == Init /\ [][Next]_vars

\* the OpenMP stage's compute_spec applied to every inventory and config
InitPlanner ==
  /\ system \in [cpus : PlannerCpus, gpus : {0}]
  /\ config \in Configs(0..MaxReq, 0..MaxOmps, 0..MaxThreads, 0..MaxUtility,
                        {<<"openmp">>})
  /\ InitLocals

NextPlanner == ConstructStage

SpecPlanner == InitPlanner /\ [][NextPlanner]_vars

\* the OpenMP stage's env and shard_args applied to every config and to
\* every shard compute_spec produces
NextLaunch ==
  \/ ConstructStage
  \/ CallShardArgs
  \/ CallEnv
  \/ MutateEnv

\* the inventories of the launch specification: groups in id order, of one
\* id or of two ids that are not adjacent
LaunchCpus ==
  {SingleCore(n) : n \in 0..MaxSingle} \cup {PairedCore(n) : n \in 0..MaxPaired}

InitLaunch ==
  /\ system \in [cpus : LaunchCpus, gpus : {0}]
  /\ config \in Configs({0, 1}, 0..MaxOmps, 0..MaxThreads, 0..MaxUtility,
                        {<<"openmp">>})
  /\ InitLocals

SpecLaunch == InitLaunch /\ [][NextLaunch]_vars

(* ------------------- properties: the shard planner --------------------- *)
\* the per-worker core requirement of the OpenMP stage as specified
CoresPerWorker ==
  config.omps * config.ompthreads + config.utility
    + (IF config.cpu_pin = "strict" THEN 1 ELSE 0)

\* the core ids of a CPU group, as a set
GroupIds(g) == {system.cpus[g].ids[n] : n \in 1..Len(system.cpus[g].ids)}

\* all core ids in group order
FlatIds == chain([g \in 1..Len(system.cpus) |-> system.cpus[g].ids])

\* C, the number of usable cores summed over all groups
TotalCores == Len(FlatIds)

\* G, the number of CPU groups
TotalGroups == Len(system.cpus)

\* the OpenMP stage has been constructed by compute_spec
OmpBuilt == Len(stages) = 1 /\ stages[1].name = "openmp"

\* compute_spec has raised
OmpRaised == pc = "raised" /\ Len(stages) = 0

OmpSpec == stages[1].spec

ElemsOf(seq) == {seq[n] : n \in 1..Len(seq)}

(* ------------------------------ C1 ------------------------------------- *)
\* C1: when execute has returned, its value is 0 or 1, and it is 0 exactly
\* when every completion of every stage has return code 0
C1_ExitCode ==
  pc = "done" =>
    /\ exit_code \in {0, 1}
    /\ exit_code = 0 <=>
         \A s \in 1..Len(stages) : \A w \in 1..Len(stages[s].procs) :
            stages[s].procs[w] = 0

\* a finished run of two stages with one clean stage and two failed workers
C1_Witness ==
  /\ pc = "done"
  /\ exit_code = 1
  /\ Len(stages) >= 2
  /\ stages[1].procs = <<0, 0>>
  /\ \E s \in 2..Len(stages) : stages[s].procs = <<1, -9>>

(* ------------------------------ C2 ------------------------------------- *)
\* C2: stages are built and run in the order of config.features, at most one
\* stage call is open, every live worker belongs to that stage, and every
\* earlier stage has its result captured
C2_Sequential ==
  /\ \A s \in 1..Len(stages) : stages[s].name = config.features[s]
  /\ started \in {joined, joined + 1}
  /\ \A p \in live : p[1] = started /\ p[1] = joined + 1
  /\ \A p \in live : \A q \in live : p[1] = q[1]
  /\ \A s \in 1..joined : Len(stages[s].procs) = stages[s].spec.workers

\* the second stage has live workers after the first ran two workers
C2_Witness ==
  /\ joined = 1
  /\ Len(stages[1].procs) = 2
  /\ \E p \in live : p[1] = 2
(* ------------------------------ C3 ------------------------------------- *)
\* C3 as stated: with requested_workers = 0 and k >= 1 cores per worker,
\* worker_count is floor(C / k) for C the total number of core ids
C3_AsStated ==
  (config.requested_workers = 0 /\ CoresPerWorker >= 1) =>
    /\ ~OmpRaised
    /\ OmpBuilt => OmpSpec.workers = TotalCores \div CoresPerWorker

\* C3: with requested_workers = 0 and k >= 1, compute_spec returns a
\* StageSpec whose worker_count is floor(G / k) for G the number of CPU
\* groups, which is floor(C / k) when every group holds one core id
C3_WorkerCount ==
  (config.requested_workers = 0 /\ CoresPerWorker >= 1) =>
    /\ ~OmpRaised
    /\ OmpBuilt =>
         /\ OmpSpec.workers = TotalGroups \div CoresPerWorker
         /\ (\A g \in 1..TotalGroups : Len(system.cpus[g].ids) = 1) =>
               OmpSpec.workers = TotalCores \div CoresPerWorker

\* an auto-sized stage on groups of more than one id, where the group count
\* and the core count give different worker counts
C3_Witness ==
  /\ OmpBuilt
  /\ config.requested_workers = 0
  /\ CoresPerWorker = 1
  /\ TotalGroups = 2
  /\ TotalCores = 3
  /\ OmpSpec.workers = 2

(* ------------------------------ C4 ------------------------------------- *)
\* no core id occurs twice in the shards of a StageSpec
ShardsDisjoint(shards) ==
  /\ \A v \in 1..Len(shards) : \A w \in 1..Len(shards) :
       v # w => ElemsOf(shards[v]) \cap ElemsOf(shards[w]) = {}
  /\ \A v \in 1..Len(shards) :
       Cardinality(ElemsOf(shards[v])) = Len(shards[v])

\* C4 as stated: len(shards) = worker_count, shards are disjoint and every
\* shard has exactly cores_per_worker ids
C4_AsStated ==
  OmpBuilt =>
    /\ Len(OmpSpec.shards) = OmpSpec.workers
    /\ ShardsDisjoint(OmpSpec.shards)
    /\ \A w \in 1..Len(OmpSpec.shards) :
         Len(OmpSpec.shards[w]) = CoresPerWorker

\* C4: len(shards) = worker_count, no core id is in two shards, and every
\* shard holds the ids of exactly cores_per_worker CPU groups, hence exactly
\* cores_per_worker ids when every group holds one id
C4_Shards ==
  OmpBuilt =>
    /\ Len(OmpSpec.shards) = OmpSpec.workers
    /\ ShardsDisjoint(OmpSpec.shards)
    /\ \A w \in 1..Len(OmpSpec.shards) :
         /\ \E gs \in SUBSET (1..TotalGroups) :
              /\ Cardinality(gs) = CoresPerWorker
              /\ ElemsOf(OmpSpec.shards[w]) = UNION {GroupIds(g) : g \in gs}
         /\ (\A g \in 1..TotalGroups : Len(system.cpus[g].ids) = 1) =>
               Len(OmpSpec.shards[w]) = CoresPerWorker

\* two shards of two groups each, holding four ids each
C4_Witness ==
  /\ OmpBuilt
  /\ OmpSpec.workers = 2
  /\ CoresPerWorker = 2
  /\ \A w \in 1..2 : Len(OmpSpec.shards[w]) = 4

(* ------------------------------ C5 ------------------------------------- *)
\* the capacity compute_spec hands to adjust_workers
Available == TotalGroups \div CoresPerWorker

\* C5: for a stage with k >= 1, the worker count fixed by adjust_workers is
\* available when requested = 0 and min(available, requested) when
\* requested > 0, and the configuration error is raised exactly when
\* requested > 0 and available = 0
C5_AdjustWorkers ==
  CoresPerWorker >= 1 =>
    /\ (OmpRaised /\ error = "ConfigurationError") <=>
         (pc = "raised" /\ config.requested_workers > 0 /\ Available = 0)
    /\ OmpRaised => error = "ConfigurationError"
    /\ OmpBuilt =>
         OmpSpec.workers =
           IF config.requested_workers = 0 THEN Available
           ELSE IF Available < config.requested_workers THEN Available
           ELSE config.requested_workers

\* five workers requested where two are available: clamped, not an error
C5_Witness ==
  /\ OmpBuilt
  /\ config.requested_workers = 5
  /\ Available = 2
  /\ OmpSpec.workers = 2

(* ------------------------------ C9 ------------------------------------- *)
\* the scenario: 8 single-core groups 0..7, omps 1, ompthreads 2, utility 1,
\* auto-sized
C9_Scenario(pin) ==
  /\ system.cpus = SingleCore(8)
  /\ config.cpu_pin = pin
  /\ config.omps = 1
  /\ config.ompthreads = 2
  /\ config.utility = 1
  /\ config.requested_workers = 0

\* C9: in the scenario under strict pinning compute_spec returns two workers
\* with shards (0,1,2,3) and (4,5,6,7); without strict pinning a worker
\* takes three cores
C9_Concrete ==
  /\ C9_Scenario("strict") =>
       /\ ~OmpRaised
       /\ OmpBuilt =>
            OmpSpec = StageSpec(2, <<<<0, 1, 2, 3>>, <<4, 5, 6, 7>>>>)
  /\ \A pin \in {"none", "partial"} : C9_Scenario(pin) =>
       /\ ~OmpRaised
       /\ OmpBuilt => OmpSpec = StageSpec(2, <<<<0, 1, 2>>, <<3, 4, 5>>>>)

\* the strict scenario after compute_spec
C9_Witness == C9_Scenario("strict") /\ OmpBuilt /\ OmpSpec.workers = 2

(* ------------------------------ C10 ------------------------------------ *)
\* C10 as stated: shard i is the run of ids at positions
\* [i*k, (i+1)*k) of the flattened id sequence, and later ids are in no shard
C10_AsStated ==
  OmpBuilt =>
    /\ \A w \in 1..OmpSpec.workers :
         OmpSpec.shards[w] =
           SubSeq(FlatIds, (w - 1) * CoresPerWorker + 1, w * CoresPerWorker)
    /\ \A n \in (OmpSpec.workers * CoresPerWorker + 1)..TotalCores :
         \A w \in 1..OmpSpec.workers : FlatIds[n] \notin ElemsOf(OmpSpec.shards[w])

\* ascending order of a tuple of ids
Ascending(seq) == \A n \in 1..(Len(seq) - 1) : seq[n] < seq[n + 1]

\* C10: shard i is, in ascending order, the ids of the CPU groups at
\* positions [i*k, (i+1)*k) of the group list; the ids of groups from
\* position worker_count*k on are in no shard, and no group is split
C10_Slices ==
  OmpBuilt =>
    /\ \A w \in 1..OmpSpec.workers :
         /\ Ascending(OmpSpec.shards[w])
         /\ ElemsOf(OmpSpec.shards[w]) =
              UNION {GroupIds(g) :
                       g \in ((w - 1) * CoresPerWorker + 1)..(w * CoresPerWorker)}
    /\ \A g \in (OmpSpec.workers * CoresPerWorker + 1)..TotalGroups :
         \A w \in 1..OmpSpec.workers :
            GroupIds(g) \cap ElemsOf(OmpSpec.shards[w]) = {}
    /\ \A g \in 1..TotalGroups : \A w \in 1..OmpSpec.workers :
         GroupIds(g) \cap ElemsOf(OmpSpec.shards[w]) \in {{}, GroupIds(g)}

\* one shard built from two groups listed in descending id order, with a
\* third group left over
C10_Witness ==
  /\ OmpBuilt
  /\ OmpSpec.workers = 1
  /\ CoresPerWorker = 2
  /\ TotalGroups = 3
  /\ FlatIds = <<2, 1, 0>>
  /\ OmpSpec.shards = <<<<1, 2>>>>
(* ------------------------------ C6 ------------------------------------- *)
\* some worker process has been spawned
Spawned == \E s \in 1..started : stages[s].spec.workers > 0

\* C6: when a configuration error has been raised for any stage, no stage
\* call has begun and no worker process has been spawned or is live, and
\* execute has not run
C6_AbortBeforeSpawn ==
  (pc = "raised" /\ error = "ConfigurationError") =>
    /\ started = 0
    /\ ~Spawned
    /\ live = {}
    /\ total = -1
    /\ exit_code = -1

\* the configuration error raised by a stage that is not the first, after
\* a stage with workers to run was built
C6_Witness ==
  /\ pc = "raised"
  /\ error = "ConfigurationError"
  /\ Len(stages) >= 1
  /\ stages[1].spec.workers > 0

(* ------------------------------ C7 ------------------------------------- *)
\* the OpenMP stage at position s has no capacity and no explicit request
ZeroCapacity(s) ==
  /\ config.features[s] = "openmp"
  /\ config.requested_workers = 0
  /\ CoresPerWorker >= 1
  /\ TotalGroups \div CoresPerWorker = 0

\* C7: a stage with available = 0 and requested_workers = 0 does not raise,
\* its StageSpec has zero workers and no shards, its call returns at once
\* with an empty result, the run ends only after every stage has returned,
\* and a run without completions exits with status 0
C7_ZeroWorkers ==
  /\ \A s \in 1..Len(config.features) : ZeroCapacity(s) =>
       /\ ~(pc = "raised" /\ Len(stages) = s - 1)
       /\ Len(stages) >= s => stages[s].spec = StageSpec(0, <<>>)
       /\ (pc = "execute" /\ started = s /\ joined = s - 1) =>
             live = {} /\ ENABLED JoinStage
       /\ joined >= s => stages[s].procs = <<>>
  /\ pc \in {"aggregated", "done"} => joined = Len(config.features)
  /\ (pc = "done" /\ total = 0) => passed = 0 /\ exit_code = 0

\* a finished run where a zero-worker stage was followed by a stage that
\* ran a worker
C7_Witness ==
  /\ pc = "done"
  /\ \E s \in 1..(Len(stages) - 1) :
       /\ ZeroCapacity(s)
       /\ stages[s].procs = <<>>
       /\ Len(stages[s + 1].procs) >= 1

(* ------------------------------ C8 ------------------------------------- *)
\* the position of a stage name in config.features
StageIndex(name) ==
  CHOOSE s \in 1..Len(config.features) : config.features[s] = name

\* all completions as <<stage position, worker>>
AllCompletions ==
  UNION {{<<s, w>> : w \in 1..Len(stages[s].procs)} : s \in 1..Len(stages)}

\* C8: total counts the completions of all stages and passed those with
\* return code 0; with total = passed nothing is reported, otherwise the
\* report has exactly one entry per completion with non-zero return code,
\* under its stage's name, in stage order and then worker order
C8_Aggregate ==
  /\ pc \in {"aggregated", "done"} =>
       /\ total = Cardinality(AllCompletions)
       /\ passed =
            Cardinality({q \in AllCompletions : stages[q[1]].procs[q[2]] = 0})
  /\ pc = "done" =>
       /\ total = passed => report = NoReport
       /\ total # passed =>
            /\ report.banner
            /\ \A n \in 1..Len(report.entries) :
                 LET e == report.entries[n]
                 IN /\ e.stage \in ElemsOf(config.features)
                    /\ <<StageIndex(e.stage), e.worker>> \in AllCompletions
                    /\ e.returncode = stages[StageIndex(e.stage)].procs[e.worker]
                    /\ e.returncode # 0
            /\ \A n \in 1..Len(report.entries) : \A m \in 1..Len(report.entries) :
                 n < m =>
                   \/ StageIndex(report.entries[n].stage)
                        < StageIndex(report.entries[m].stage)
                   \/ /\ report.entries[n].stage = report.entries[m].stage
                      /\ report.entries[n].worker < report.entries[m].worker
            /\ \A q \in AllCompletions : stages[q[1]].procs[q[2]] # 0 =>
                 \E n \in 1..Len(report.entries) :
                    /\ report.entries[n].stage = stages[q[1]].name
                    /\ report.entries[n].worker = q[2]

\* stages A = [0, 0], B = [1], C = []: total 3, passed 2, B's process alone
\* in the report
C8_Witness ==
  /\ pc = "done"
  /\ Len(stages) = 3
  /\ stages[1].procs = <<0, 0>>
  /\ stages[2].procs = <<1>>
  /\ stages[3].procs = <<>>
  /\ total = 3
  /\ passed = 2
  /\ report.entries =
       <<[stage |-> stages[2].name, worker |-> 1, returncode |-> 1]>>
(* ------------------------------ C11 ------------------------------------ *)
RECURSIVE AscendingList(_)
\* the members of a set of ids, smallest first
AscendingList(S) ==
  IF S = {} THEN <<>>
  ELSE LET least == CHOOSE x \in S : \A y \in S : x <= y
       IN <<least>> \o AscendingList(S \ {least})

RECURSIVE CommaList(_)
\* the decimal ids of a sequence separated by commas
CommaList(ids) ==
  IF ids = <<>> THEN ""
  ELSE str(Head(ids)) \o (IF Tail(ids) = <<>> THEN "" ELSE "," \o CommaList(Tail(ids)))

\* C11: the arguments of a worker are --omps <omps> --ompthreads
\* <ompthreads>, followed exactly when cpu_pin is not none by --cpu-bind and
\* the worker's core ids in ascending order, separated by commas
C11_ShardArgs ==
  argv.worker # 0 =>
    /\ OmpBuilt
    /\ SubSeq(argv.args, 1, 4) =
         <<"--omps", str(config.omps), "--ompthreads", str(config.ompthreads)>>
    /\ config.cpu_pin = "none" <=> Len(argv.args) = 4
    /\ config.cpu_pin # "none" =>
         /\ Len(argv.args) = 6
         /\ argv.args[5] = "--cpu-bind"
         /\ argv.args[6] =
              CommaList(AscendingList(ElemsOf(OmpSpec.shards[argv.worker])))

\* the second worker on four two-thread cores under partial pinning
C11_Witness ==
  /\ system.cpus = PairedCore(4)
  /\ config.cpu_pin = "partial"
  /\ argv.worker = 2
  /\ argv.args = <<"--omps", "1", "--ompthreads", "1", "--cpu-bind", "2,3,6,7">>

(* ------------------------------ C12 ------------------------------------ *)
\* what a mapping returned by env holds now
View(e) == IF e.shared THEN UNPIN_ENV ELSE e.map

\* C12: every mapping env returned that the caller has not written to is
\* empty under strict pinning and the unpinning overrides under none and
\* partial, whatever the system, the shards and the caller's writes to
\* other results; no result is UNPIN_ENV itself and UNPIN_ENV keeps its
\* contents
C12_Env ==
  /\ \A n \in 1..Len(envs) :
       /\ ~envs[n].touched =>
            View(envs[n]) =
              IF config.cpu_pin = "strict" THEN {} ELSE UnpinOverrides
       /\ ~envs[n].shared
  /\ UNPIN_ENV = UnpinOverrides

\* env called again after the caller wrote to its first result
C12_Witness ==
  /\ config.cpu_pin = "partial"
  /\ Len(envs) = 2
  /\ envs[1].touched
  /\ <<"CALLER", "x">> \in View(envs[1])
  /\ envs[2].later
  /\ View(envs[2]) = UnpinOverrides
(* ------------------------------ C13 ------------------------------------ *)
\* the workers of stage s that have ended
Ended(s) == {stages[s].finished[n].worker : n \in 1..Len(stages[s].finished)}

\* the workers of stage s that are running
Running(s) == {p[2] : p \in {q \in live : q[1] = s}}

\* C13: a stage call launches exactly the workers 1..worker_count, one per
\* shard; while it is open every worker is either running or has ended
\* once; it returns only when none is running, and the result then holds
\* at position w the return code of worker w, whatever the order in which
\* the workers ended
C13_LaunchOrder ==
  /\ [](\A s \in (joined + 1)..started :
          /\ Len(stages[s].spec.shards) = stages[s].spec.workers
          /\ Running(s) \cup Ended(s) = 1..stages[s].spec.workers
          /\ Running(s) \cap Ended(s) = {}
          /\ Cardinality(Ended(s)) = Len(stages[s].finished))
  /\ [][/\ started' = started + 1 =>
             live' = live \cup
               {<<started', w>> : w \in 1..stages[started'].spec.workers}
        /\ joined' = joined + 1 =>
             /\ Running(joined') = {}
             /\ Len(stages'[joined'].procs) = stages[joined'].spec.workers
             /\ \A n \in 1..Len(stages[joined'].finished) :
                  stages'[joined'].procs[stages[joined'].finished[n].worker]
                    = stages[joined'].finished[n].returncode]_vars

\* both workers of a stage have ended, the second one first and with a
\* different return code, and the stage call is about to return
C13_Witness ==
  /\ started = joined + 1
  /\ live = {}
  /\ stages[started].finished =
       <<[worker |-> 2, returncode |-> 1], [worker |-> 1, returncode |-> 0]>>

(* ------------------------------ C14 ------------------------------------ *)
\* the position of a run in Init, RunningStage, Aggregating, Done
Phase(p) ==
  CASE p = "init" -> 0
    [] p = "raised" -> 0
    [] p = "execute" -> 1
    [] p = "aggregated" -> 2
    [] p = "done" -> 3

\* C14: a run moves from Init through the stages in order to Aggregating
\* and Done and never back; a stage call begins only when the one before
\* has returned, each stage is begun and returned once; Aggregating is
\* entered only when every configured stage has its result; the exit code
\* is set once, on entering Done, and nothing changes after Done
C14_StateMachine ==
  /\ [](/\ started <= Len(config.features)
        /\ joined <= started
        /\ started <= joined + 1
        /\ pc \in {"init", "raised"} => started = 0
        /\ pc \in {"aggregated", "done"} =>
             /\ Len(stages) = Len(config.features)
             /\ joined = Len(config.features)
             /\ \A s \in 1..Len(stages) :
                  Len(stages[s].procs) = stages[s].spec.workers
        /\ total # -1 <=> pc \in {"aggregated", "done"}
        /\ exit_code # -1 <=> pc = "done")
  /\ [][/\ Phase(pc') >= Phase(pc)
        /\ Phase(pc') <= Phase(pc) + 1
        /\ started' \in {started, started + 1}
        /\ joined' \in {joined, joined + 1}
        /\ started' = started + 1 => joined = started /\ pc = "execute"
        /\ \A s \in 1..joined : stages'[s].procs = stages[s].procs
        /\ exit_code' # exit_code => pc = "aggregated" /\ pc' = "done"
        /\ pc = "done" => vars' = vars]_vars

\* a finished run of three stages
C14_Witness ==
  /\ pc = "done"
  /\ joined = 3
  /\ total >= 3
  /\ exit_code = 0

(* ------------------------------ C15 ------------------------------------ *)
\* some recorded completion has a non-zero return code
SomeFailure ==
  \E s \in 1..Len(stages) : \E w \in 1..Len(stages[s].procs) :
     stages[s].procs[w] # 0

\* C15: a failed worker raises nothing and stops nothing: no exception
\* leaves the run once a stage has begun, the other workers of its stage
\* stay running until they end and are recorded, the loop can begin the
\* next stage after a stage with failures, every stage has run and recorded
\* all its workers when the results are aggregated, and the failure shows
\* in total - passed and in exit code 1 only
C15_FailureNotFatal ==
  /\ started > 0 => pc # "raised" /\ error = "none"
  /\ \A s \in (joined + 1)..started :
       \A w \in 1..stages[s].spec.workers : w \in Running(s) \/ w \in Ended(s)
  /\ (pc = "execute" /\ joined = started /\ started < Len(stages)) =>
        ENABLED StartStage
  /\ (pc = "execute" /\ started < Len(config.features) /\ SomeFailure) =>
        ~ENABLED Aggregate
  /\ pc \in {"aggregated", "done"} =>
       /\ joined = Len(config.features)
       /\ \A s \in 1..Len(stages) :
            Len(stages[s].procs) = stages[s].spec.workers
       /\ SomeFailure <=> total - passed > 0
  /\ pc = "done" => (SomeFailure <=> exit_code = 1)

\* a finished run whose first stage had its first worker killed and its
\* second worker pass, followed by a stage that ran a passing worker
C15_Witness ==
  /\ pc = "done"
  /\ Len(stages) >= 2
  /\ stages[1].procs = <<-9, 0>>
  /\ stages[2].procs = <<0>>
  /\ total - passed = 1
  /\ exit_code = 1
(* ------------------------------ C17 ------------------------------------ *)
\* C17: for non-negative omps, ompthreads and utility and any pin mode,
\* compute_spec returns a StageSpec or raises the configuration error of
\* adjust_workers and nothing else, also when the per-worker core
\* requirement is 0, and it reads no group index outside the inventory
C17_NoOtherFailure ==
  /\ OmpRaised => error = "ConfigurationError"
  /\ error # "IndexError"
  /\ (pc = "init" /\ CoresPerWorker = 0) => ENABLED ConstructStage
  /\ CoresPerWorker = 0 => ~OmpRaised
====
